---------------------------- MODULE Spec2Model ----------------------------
(***************************************************************************)
(* Model of the Flow.bio execution batch orchestrators                     *)
(*   src/flowrunanalysis.py                    (CLIP, REST submission)     *)
(*   src/analysis/flowRNAanalysis.py           (RNA-seq, REST submission)  *)
(*   src/analysis/flowrunanalysis_flowbio.py   (CLIP, flowbio client)      *)
(*                                                                         *)
(* Encodings.  Python strings that the code takes apart (sample names,     *)
(* filter patterns) are sequences of one-character strings.  A Python None *)
(* (or an absent key read with .get) is the one-element sequence NoName /  *)
(* NoPattern where the value is a sequence, the string None where it is a  *)
(* string, and the empty sequence where it is an optional integer          *)
(* (<<k>> is the integer k).  A Python dict is a function; a dict whose    *)
(* iteration order matters (FILE_MAP, data_params of the execution) is the *)
(* sequence of its items in insertion order.                               *)
(***************************************************************************)
EXTENDS Integers, Sequences, FiniteSets, TLC

VARIABLES
    variant,        \* which script runs
    args,           \* parsed command line (argparse namespace)
    execution,      \* the preparation execution record the server returns
    file_map,       \* the logical name -> expected filename table in use
    resolved,       \* outcome of build_data_params_from_execution
    fileset_id,     \* (ex.get("fileset") or {}).get("id")
    roster,         \* the samples the server holds for the project
    page_size,      \* page_size argument of fetch_all_project_samples
    page,           \* fetch loop: next page number
    collected,      \* fetch loop: samples gathered so far
    requests,       \* page numbers requested so far, in order
    received,       \* the responses to those requests, in order
    server,         \* how the server answers page requests
    samples_in,     \* argument of filter_by_sample_name
    selected,       \* result of filter_by_sample_name
    chunks,         \* result of the array_split step
    start_batch,    \* effective first batch (flowbio)
    end_batch,      \* effective last batch (flowbio)
    i,              \* batch loop index (1-based)
    built,          \* the requests built, in order
    skipped,        \* indices of the batches logged as skipped, in order
    reported,       \* what the dry run logged for each batch, in order
    prompts,        \* what the operator typed at each "Submit? (y/n)", in order
    submitted,      \* submission calls issued, in order
    run_urls,       \* run_urls list: batch index of every recorded URL
    errors,         \* batch indices of "Failed to submit batch" log lines
    pc,             \* position of the process
    exit_status,    \* process exit status once it has ended (-1 while running)
    exit_reason,    \* which statement ended the process
    file_sizes,     \* upload: os.path.getsize of every path
    reads,          \* upload: the list of read files
    chunk_size,     \* upload: chunk_size argument
    file_k,         \* upload: position of the outer loop in reads
    chunk_num,      \* upload: chunk_num of the inner loop
    data_id,        \* upload: data_id carried from chunk to chunk
    sample_id,      \* upload: sample_id of the last response
    previous_data,  \* upload: ids of the files completed so far
    posted,         \* upload: the forms posted and what came back, in order
    rows_spec,      \* parse_rows: the spec argument
    nrows,          \* parse_rows: the nrows argument
    rows_out        \* parse_rows: the list returned

vars == <<variant, args, execution, file_map, resolved, fileset_id, roster,
          page_size, page, collected, requests, received, server, samples_in,
          selected,
          chunks, start_batch, end_batch, i, built, skipped, reported, prompts,
          submitted, run_urls, errors, pc, exit_status, exit_reason,
          file_sizes, reads, chunk_size, file_k, chunk_num, data_id, sample_id,
          previous_data, posted, rows_spec, nrows, rows_out>>

\* fixed once the process has started
inputVars == <<variant, args, roster, page_size, server, file_map, samples_in>>
prepVars == <<execution, resolved, fileset_id>>
fetchVars == <<page, collected, requests, received>>
loopVars == <<i, built, skipped, reported, prompts, submitted, run_urls, errors>>
\* the upload tools: _patched_upload_sample and parse_rows
uploadVars == <<file_sizes, reads, chunk_size, file_k, chunk_num, data_id, sample_id,
                previous_data, posted, rows_spec, nrows, rows_out>>

\* a process that ends with status 0 whatever ended it
ExitStatusZero(status, reason) ==
    pc' = "exited" /\ exit_status' = 0 /\ exit_reason' = reason

\* an uncaught exception or SystemExit(message) ends the process with status 1,
\* sys.exit(0) with status 0 (the __main__ block, lines 287-292)
Exit(status, reason) ==
    pc' = "exited" /\ exit_status' = status /\ exit_reason' = reason

Continue(next) == pc' = next /\ UNCHANGED <<exit_status, exit_reason>>

-----------------------------------------------------------------------------
(* Bounds of the model *)

MaxInputs == 1
MaxProcs == 2
MaxDownstream == 1
MaxMapLen == 2

None == "None"
NoName == <<"<None>">>
NoPattern == <<"<None>">>

\* Python truthiness of a string read with .get
Truthy(s) == s /= None /\ s /= ""

Min(a, b) == IF a <= b THEN a ELSE b
Max(a, b) == IF a >= b THEN a ELSE b

\* sequences over S of length at most n
SeqUpTo(S, n) == UNION {[1..k -> S] : k \in 0..n}

RECURSIVE Flatten(_)
Flatten(ss) == IF ss = <<>> THEN <<>> ELSE Head(ss) \o Flatten(Tail(ss))

-----------------------------------------------------------------------------
(* Reference resolver: build_data_params_from_execution *)

Filenames == {"star", "bowtie"}
ParamNames == {"target_genome_index", "smrna_genome_index"}
ExpectedNames == {"star", "bowtie"}

\* filename None: the record has no filename (absent key or null).  Every
\* record carries an id, as the execution record response defines it; line 159
\* reads match["id"] without a default.
RecordNames == Filenames \cup {None}

\* The server gives every file its own id: the k-th declared input has id k,
\* the d-th downstream file of the p-th process execution has id 10 * p + d.
InputRecords(names) == [k \in DOMAIN names |-> [filename |-> names[k], id |-> k]]

DownstreamRecords(p, names) ==
    [d \in DOMAIN names |-> [filename |-> names[d], id |-> 10 * p + d]]

ExecutionOf(inputNames, procNames, fs) ==
    [data_params |-> InputRecords(inputNames),
     process_executions |->
        [p \in DOMAIN procNames |-> [downstream_data |-> DownstreamRecords(p, procNames[p])]],
     fileset |-> fs]

ExecutionRecords ==
    {ExecutionOf(inames, pnames, "fs1") :
        inames \in SeqUpTo(RecordNames, MaxInputs),
        pnames \in SeqUpTo(SeqUpTo(RecordNames, MaxDownstream), MaxProcs)}

\* file maps: items in dict order, keys distinct
FileMaps ==
    {m \in SeqUpTo(ParamNames \X ExpectedNames, MaxMapLen) :
        \A a, b \in DOMAIN m : a /= b => m[a][1] /= m[b][1]}

\* lines 143-146: declared inputs, then every step's downstream_data in order
AllFiles(ex) ==
    ex.data_params \o
    Flatten([k \in DOMAIN ex.process_executions |-> ex.process_executions[k].downstream_data])

\* an index in which a later record overwrites an earlier one
RECURSIVE BuildIndexLastWins(_, _)
BuildIndexLastWins(files, idx) ==
    IF files = <<>> THEN idx
    ELSE LET f == Head(files)
             fn == f.filename
         IN BuildIndexLastWins(Tail(files),
                               IF Truthy(fn) THEN (fn :> f) @@ idx ELSE idx)

\* lines 147-151: index by filename, an entry is written only when the name is new
RECURSIVE BuildIndex(_, _)
BuildIndex(files, idx) ==
    IF files = <<>> THEN idx
    ELSE LET f == Head(files)
             fn == f.filename
         IN BuildIndex(Tail(files),
                       IF Truthy(fn) /\ fn \notin DOMAIN idx
                       THEN idx @@ (fn :> f)
                       ELSE idx)

EmptyMap == [x \in {} |-> None]

\* lines 152-159: one pass over the file map
RECURSIVE BindLoop(_, _, _, _)
BindLoop(items, idx, missing, data_params) ==
    IF items = <<>> THEN [missing |-> missing, data_params |-> data_params]
    ELSE LET param_name == Head(items)[1]
             expected_filename == Head(items)[2]
         IN IF expected_filename \notin DOMAIN idx
            THEN BindLoop(Tail(items), idx,
                          Append(missing, <<param_name, expected_filename>>),
                          data_params)
            ELSE BindLoop(Tail(items), idx, missing,
                          (param_name :> idx[expected_filename].id) @@ data_params)

\* a resolver that forgets the "if missing: raise" check
build_data_params_no_raise(ex, fmap) ==
    LET r == BindLoop(fmap, BuildIndex(AllFiles(ex), EmptyMap), <<>>, EmptyMap)
    IN [kind |-> "ok", data_params |-> r.data_params, missing |-> <<>>]

\* lines 142-163
build_data_params_from_execution(ex, fmap) ==
    LET r == BindLoop(fmap, BuildIndex(AllFiles(ex), EmptyMap), <<>>, EmptyMap)
    IN IF r.missing /= <<>>
       THEN [kind |-> "RuntimeError", data_params |-> EmptyMap, missing |-> r.missing]
       ELSE [kind |-> "ok", data_params |-> r.data_params, missing |-> <<>>]

Unresolved == [kind |-> "pending", data_params |-> EmptyMap, missing |-> <<>>]


-----------------------------------------------------------------------------
(* Sample roster fetcher: fetch_all_project_samples *)

MaxRoster == 6
MaxPageSize == 3
\* the loop itself has no page limit; the model follows it this far
MaxPages == 8

Alphabet == {"a", "b"}

\* the project holds L samples; sample k has id k
RosterOf(L) ==
    [k \in 1..L |-> [id |-> k, name |-> IF k % 2 = 1 THEN <<"a", "b">> ELSE <<"b">>]]

\* the page the roster itself defines: 1-indexed pages of count samples
ServerPage(r, p, count) == SubSeq(r, (p - 1) * count + 1, Min(p * count, Len(r)))

Prefixes(q) == {SubSeq(q, 1, k) : k \in 0..Len(q)}

\* what session.get may return for page p (lines 81-89); an "endless" server
\* has a full page for every page number
PageResponses(mode, r, p, count) ==
    LET exact == IF mode = "endless"
                 THEN ServerPage(RosterOf(p * count), p, count)
                 ELSE ServerPage(r, p, count)
    IN {[status |-> 200, samples |-> exact]}
       \cup (IF mode = "failing" THEN {[status |-> 500, samples |-> <<>>]} ELSE {})
       \cup (IF mode = "short"
             THEN {[status |-> 200, samples |-> q] : q \in Prefixes(exact)}
             ELSE {})

\* a loop that stops only on an empty page
FetchPageNoShortStop ==
    /\ pc = "fetch"
    /\ \E resp \in PageResponses(server, roster, page, page_size) :
        /\ requests' = Append(requests, page)
        /\ received' = Append(received, resp)
        /\ IF resp.status /= 200
           THEN Exit(1, "http_roster") /\ UNCHANGED <<collected, page>>
           ELSE IF resp.samples = <<>>
           THEN Continue("fetched") /\ UNCHANGED <<collected, page>>
           ELSE /\ collected' = collected \o resp.samples
                /\ page' = page + 1
                /\ Continue("fetch")
    /\ UNCHANGED <<inputVars, uploadVars, prepVars, selected, chunks, start_batch, end_batch, loopVars>>

\* a loop that takes a non-success response as the end of the roster
FetchPageBreaksOnError ==
    /\ pc = "fetch"
    /\ \E resp \in PageResponses(server, roster, page, page_size) :
        /\ requests' = Append(requests, page)
        /\ received' = Append(received, resp)
        /\ IF resp.status /= 200
           THEN Continue("fetched") /\ UNCHANGED <<collected, page>>
           ELSE IF resp.samples = <<>>
           THEN Continue("fetched") /\ UNCHANGED <<collected, page>>
           ELSE /\ collected' = collected \o resp.samples
                /\ IF Len(resp.samples) < page_size
                   THEN Continue("fetched") /\ UNCHANGED page
                   ELSE page' = page + 1 /\ Continue("fetch")
    /\ UNCHANGED <<inputVars, uploadVars, prepVars, selected, chunks, start_batch, end_batch, loopVars>>

\* a loop that tests the page length before it extends the result: the
\* short page is dropped
FetchPageDropsShortPage ==
    /\ pc = "fetch"
    /\ \E resp \in PageResponses(server, roster, page, page_size) :
        /\ requests' = Append(requests, page)
        /\ received' = Append(received, resp)
        /\ IF resp.status /= 200
           THEN Exit(1, "http_roster") /\ UNCHANGED <<collected, page>>
           ELSE IF Len(resp.samples) < page_size
           THEN Continue("fetched") /\ UNCHANGED <<collected, page>>
           ELSE /\ collected' = collected \o resp.samples
                /\ page' = page + 1 /\ Continue("fetch")
    /\ UNCHANGED <<inputVars, uploadVars, prepVars, selected, chunks, start_batch, end_batch, loopVars>>

\* a loop that gives up after three pages
FetchPageCapped ==
    /\ pc = "fetch"
    /\ page <= MaxPages
    /\ \E resp \in PageResponses(server, roster, page, page_size) :
        /\ requests' = Append(requests, page)
        /\ received' = Append(received, resp)
        /\ IF resp.status /= 200
           THEN Exit(1, "http_roster") /\ UNCHANGED <<collected, page>>
           ELSE IF resp.samples = <<>>
           THEN Continue("fetched") /\ UNCHANGED <<collected, page>>
           ELSE /\ collected' = collected \o resp.samples
                /\ IF Len(resp.samples) < page_size \/ page >= 3
                   THEN Continue("fetched") /\ UNCHANGED page
                   ELSE page' = page + 1 /\ Continue("fetch")
    /\ UNCHANGED <<inputVars, uploadVars, prepVars, selected, chunks, start_batch, end_batch, loopVars>>

\* one iteration of the while loop, lines 79-95; leaving the loop is lines 96-97
\* (the guard on page keeps the model finite against an endless server)
FetchPage ==
    /\ pc = "fetch"
    /\ page <= MaxPages
    /\ \E resp \in PageResponses(server, roster, page, page_size) :
        /\ requests' = Append(requests, page)
        /\ received' = Append(received, resp)
        /\ IF resp.status /= 200
           THEN \* _raise_for_status raises
                Exit(1, "http_roster") /\ UNCHANGED <<collected, page>>
           ELSE IF resp.samples = <<>>
           THEN Continue("fetched") /\ UNCHANGED <<collected, page>>
           ELSE /\ collected' = collected \o resp.samples
                /\ IF Len(resp.samples) < page_size
                   THEN Continue("fetched") /\ UNCHANGED page
                   ELSE page' = page + 1 /\ Continue("fetch")
    /\ UNCHANGED <<inputVars, uploadVars, prepVars, selected, chunks, start_batch, end_batch, loopVars>>

-----------------------------------------------------------------------------
(* Sample filter: filter_by_sample_name *)

MaxNameLen == 2
MaxFilterSamples == 2

IsFlowbio == variant = "flowrunanalysis_flowbio"

Variants == {"flowrunanalysis", "flowRNAanalysis", "flowrunanalysis_flowbio"}

\* s.get("name") or ""
NameOrEmpty(s) == IF s.name = NoName THEN <<>> ELSE s.name

Suffix(q, k) == SubSeq(q, k + 1, Len(q))

\* fnmatch.fnmatch(name, pat): the whole name against a shell glob of
\* literal characters, "?" (one character) and "*" (any run of characters)
RECURSIVE fnmatch(_, _)
fnmatch(name, pat) ==
    IF pat = <<>> THEN name = <<>>
    ELSE IF Head(pat) = "*"
    THEN \E k \in 0..Len(name) : fnmatch(Suffix(name, k), Tail(pat))
    ELSE /\ name /= <<>>
         /\ Head(pat) = "?" \/ Head(pat) = Head(name)
         /\ fnmatch(Tail(name), Tail(pat))

\* re.compile: of the tokens used here only an unclosed "(" is rejected
re_valid(pat) == \A k \in DOMAIN pat : pat[k] /= "("

\* the compiled pattern tried at position pos of name: literal characters,
\* "." (one character), ".*" (any run), "^" (start), "$" (end)
RECURSIVE re_match_at(_, _, _)
re_match_at(name, pos, pat) ==
    IF pat = <<>> THEN TRUE
    ELSE LET t == Head(pat)
         IN CASE t = "^" -> pos = 0 /\ re_match_at(name, pos, Tail(pat))
              [] t = "$" -> pos = Len(name) /\ re_match_at(name, pos, Tail(pat))
              [] t = ".*" -> \E k \in pos..Len(name) : re_match_at(name, k, Tail(pat))
              [] t = "." -> pos < Len(name) /\ re_match_at(name, pos + 1, Tail(pat))
              [] OTHER -> /\ pos < Len(name)
                          /\ name[pos + 1] = t
                          /\ re_match_at(name, pos + 1, Tail(pat))

\* pattern.search(name): a match starting anywhere
re_search(name, pat) == \E k \in 0..Len(name) : re_match_at(name, k, pat)

\* the test of the list comprehension: line 171 (glob), flowbio line 159 (regex)
NameMatches(v, s, pat) ==
    IF v = "flowrunanalysis_flowbio"
    THEN re_search(NameOrEmpty(s), pat)
    ELSE fnmatch(NameOrEmpty(s), pat)

\* a comprehension that puts each match in front of the earlier ones
RECURSIVE MatchedReversed(_, _, _)
MatchedReversed(v, samples, pat) ==
    IF samples = <<>> THEN <<>>
    ELSE MatchedReversed(v, Tail(samples), pat)
         \o (IF NameMatches(v, Head(samples), pat) THEN <<Head(samples)>> ELSE <<>>)

\* [s for s in samples if <test>]
RECURSIVE Matched(_, _, _)
Matched(v, samples, pat) ==
    IF samples = <<>> THEN <<>>
    ELSE (IF NameMatches(v, Head(samples), pat) THEN <<Head(samples)>> ELSE <<>>)
         \o Matched(v, Tail(samples), pat)

\* "not glob_expr": None or the empty string
PatternAbsent(pat) == pat = NoPattern \/ pat = <<>>

\* a filter that swallows re.error and returns the list unfiltered
filter_ignoring_bad_pattern(v, samples, pat) ==
    IF PatternAbsent(pat) THEN [kind |-> "ok", samples |-> samples]
    ELSE IF v = "flowrunanalysis_flowbio" /\ ~re_valid(pat)
    THEN [kind |-> "ok", samples |-> samples]
    ELSE [kind |-> "ok", samples |-> Matched(v, samples, pat)]

\* flowrunanalysis.py lines 168-173, flowrunanalysis_flowbio.py lines 152-161
filter_by_sample_name(v, samples, pat) ==
    IF PatternAbsent(pat) THEN [kind |-> "ok", samples |-> samples]
    ELSE IF v = "flowrunanalysis_flowbio" /\ ~re_valid(pat)
    THEN [kind |-> "SystemExit", samples |-> <<>>]
    ELSE [kind |-> "ok", samples |-> Matched(v, samples, pat)]

-----------------------------------------------------------------------------
(* Batch partitioner: max(1, n) and numpy.array_split *)

MaxPartLen == 6
MaxChunks == 4

\* numpy.array_split: divmod, then extras sections of Neach + 1 and the rest of Neach
SectionSize(Ntotal, Nsections, k) ==
    IF k <= Ntotal % Nsections THEN (Ntotal \div Nsections) + 1 ELSE Ntotal \div Nsections

\* div_points = cumsum(section_sizes)
RECURSIVE DivPoint(_, _, _)
DivPoint(Ntotal, Nsections, k) ==
    IF k = 0 THEN 0
    ELSE DivPoint(Ntotal, Nsections, k - 1) + SectionSize(Ntotal, Nsections, k)

\* a split into sections of ceil(L / n), the last ones short or empty
array_split_fixed_size(ary, Nsections) ==
    LET size == (Len(ary) + Nsections - 1) \div Nsections
    IN [k \in 1..Nsections |->
            SubSeq(ary, Min((k - 1) * size, Len(ary)) + 1, Min(k * size, Len(ary)))]

\* a split whose sections start one element early
array_split_overlapping(ary, Nsections) ==
    [k \in 1..Nsections |->
        SubSeq(ary,
               Max(DivPoint(Len(ary), Nsections, k - 1), 1),
               DivPoint(Len(ary), Nsections, k))]

\* sub_arys[k] = ary[div_points[k-1] : div_points[k]]
array_split(ary, Nsections) ==
    [k \in 1..Nsections |->
        SubSeq(ary,
               DivPoint(Len(ary), Nsections, k - 1) + 1,
               DivPoint(Len(ary), Nsections, k))]

\* lines 226-229 (flowbio 210-213)
Partition ==
    /\ pc = "partition"
    /\ LET n_chunks == Max(1, args.num_chunks)
       IN chunks' = array_split(selected, n_chunks)
    /\ Continue(IF IsFlowbio THEN "range" ELSE "loop")
    /\ UNCHANGED <<inputVars, uploadVars, prepVars, fetchVars, selected, start_batch, end_batch, loopVars>>


-----------------------------------------------------------------------------
(* The orchestrator: main() *)

MaxRunSamples == 3
MaxRunChunks == 3
\* main passes page_size=100; the model scales it to the roster bound
RunPageSize == 2

\* the two index entries of FILE_MAP (lines 124-125), in dict order
FILE_MAP == <<<<"target_genome_index", "star">>, <<"smrna_genome_index", "bowtie">>>>

\* preparation executions the server may hold
RunExecutions ==
    {ExecutionOf(<<"star">>, <<<<"bowtie">>, <<"star">>>>, "fs1"),
     ExecutionOf(<<>>, <<<<"star">>, <<None>>>>, "fs1"),
     ExecutionOf(<<"bowtie">>, <<<<"star">>>>, None)}

NoFilter == [key |-> None, value |-> NoPattern]

\* --filter KEY VALUE as given on the command line
RunFilters(v) ==
    {NoFilter, [key |-> "other", value |-> <<"a">>]}
    \cup (IF v = "flowrunanalysis_flowbio"
          THEN {[key |-> "sample_name", value |-> <<"^", "a">>],
                [key |-> "sample_name", value |-> <<"^", "b">>],
                [key |-> "sample_name", value |-> <<"(">>]}
          ELSE {[key |-> "sample_name", value |-> <<"a", "*">>],
                [key |-> "sample_name", value |-> <<"b", "*">>]})

\* what the operator may type at the prompt, and .strip().lower() of it
Typed == {"y", " Y ", "n", ""}
StripLower(t) == IF t = " Y " THEN "y" ELSE t

\* outcomes of one submission call: an id, an exception (transport error or
\* non-success status), or a response without id
SubmitOutcomes == {"ok", "error", "no_id"}

\* lines 179-196 (flowbio 167-183): arguments, login, pipeline version
Startup ==
    /\ pc = "start"
    /\ \E ok \in BOOLEAN :
        IF ok THEN Continue("prep") ELSE Exit(1, "login")
    /\ UNCHANGED <<inputVars, uploadVars, prepVars, fetchVars, selected, chunks, start_batch,
                   end_batch, loopVars>>

\* lines 199-203 (flowbio 186-187): the preparation execution, its fileset id
\* (not read by the flowbio variant) and the reference bindings
FetchPrep ==
    /\ pc = "prep"
    /\ \E http_ok \in BOOLEAN, ex \in RunExecutions :
        IF ~http_ok
        THEN Exit(1, "http_prep") /\ UNCHANGED prepVars
        ELSE /\ execution' = ex
             /\ IF IsFlowbio
                THEN LET r == build_data_params_from_execution(ex, file_map)
                     IN /\ resolved' = r
                        /\ UNCHANGED fileset_id
                        /\ IF r.kind = "ok" THEN Continue("fetch")
                           ELSE Exit(1, "missing_refs")
                ELSE /\ fileset_id' = ex.fileset
                     /\ IF ~Truthy(ex.fileset)
                        THEN Exit(1, "no_fileset") /\ UNCHANGED resolved
                        ELSE LET r == build_data_params_from_execution(ex, file_map)
                             IN /\ resolved' = r
                                /\ IF r.kind = "ok" THEN Continue("fetch")
                                   ELSE Exit(1, "missing_refs")
    /\ UNCHANGED <<inputVars, uploadVars, fetchVars, selected, chunks, start_batch, end_batch, loopVars>>

\* a filter step without the empty check: an empty selection goes on to the
\* partition
FilterStepNoEmptyCheck ==
    /\ pc = "fetched"
    /\ IF args.filter /= NoFilter /\ args.filter.key /= "sample_name"
       THEN Exit(1, "bad_filter_key") /\ UNCHANGED selected
       ELSE LET r == filter_by_sample_name(variant, collected, args.filter.value)
            IN IF r.kind /= "ok"
               THEN Exit(1, "bad_regex") /\ UNCHANGED selected
               ELSE /\ selected' = r.samples
                    /\ Continue("partition")
    /\ UNCHANGED <<inputVars, uploadVars, prepVars, fetchVars, chunks, start_batch, end_batch, loopVars>>

\* lines 208-224 (flowbio 192-208): --filter, the filter itself, the empty check
\* (the listing printed at lines 219-221 reads s['name'], which every sample of
\* the rosters used here has)
FilterStep ==
    /\ pc = "fetched"
    /\ IF args.filter /= NoFilter /\ args.filter.key /= "sample_name"
       THEN Exit(1, "bad_filter_key") /\ UNCHANGED selected
       ELSE LET r == filter_by_sample_name(variant, collected, args.filter.value)
            IN IF r.kind /= "ok"
               THEN Exit(1, "bad_regex") /\ UNCHANGED selected
               ELSE /\ selected' = r.samples
                    /\ IF r.samples = <<>>
                       THEN Exit(1, "empty")
                       ELSE Continue("partition")
    /\ UNCHANGED <<inputVars, uploadVars, prepVars, fetchVars, chunks, start_batch, end_batch, loopVars>>

\* a range step without the start check of lines 220-221
RangeStepNoStartCheck ==
    /\ pc = "range"
    /\ LET sb == Max(1, args.start_batch)
           eb == Min(IF args.end_batch = <<>> THEN Len(chunks) ELSE args.end_batch[1],
                     Len(chunks))
       IN /\ start_batch' = sb
          /\ end_batch' = eb
          /\ Continue("loop")
    /\ UNCHANGED <<inputVars, uploadVars, prepVars, fetchVars, selected, chunks, loopVars>>

\* flowbio lines 215-223: the range of batches to execute
RangeStep ==
    /\ pc = "range"
    /\ LET sb == Max(1, args.start_batch)
           eb == Min(IF args.end_batch = <<>> THEN Len(chunks) ELSE args.end_batch[1],
                     Len(chunks))
       IN /\ start_batch' = sb
          /\ end_batch' = eb
          /\ IF sb > Len(chunks) THEN Exit(1, "start_exceeds") ELSE Continue("loop")
    /\ UNCHANGED <<inputVars, uploadVars, prepVars, fetchVars, selected, chunks, loopVars>>

\* lines 234-240: one row per sample of the chunk
Rows(chunk) ==
    [k \in DOMAIN chunk |->
        [sample |-> chunk[k].id, group |-> chunk[k].name, replicate |-> "1"]]

\* flowbio lines 234-239: a dict keyed by sample id
SampleParams(chunk) ==
    [id \in {chunk[k].id : k \in DOMAIN chunk} |->
        LET last == CHOOSE k \in DOMAIN chunk :
                        chunk[k].id = id /\ \A j \in DOMAIN chunk : chunk[j].id = id => j <= k
        IN [group |-> chunk[last].name, replicate |-> "1"]]

\* lines 242-256 (flowbio 242-249, 259-266): the request of batch b
Request(b) ==
    IF IsFlowbio
    THEN [batch |-> b, data_params |-> resolved.data_params, fileset |-> None,
          rows |-> SampleParams(chunks[b])]
    ELSE [batch |-> b, data_params |-> resolved.data_params, fileset |-> fileset_id,
          rows |-> Rows(chunks[b])]

InRange(b) == ~IsFlowbio \/ (start_batch <= b /\ b <= end_batch)

\* flowbio lines 229-231
SkipBatch ==
    /\ pc = "loop"
    /\ i <= Len(chunks)
    /\ IsFlowbio
    /\ i < start_batch \/ i > end_batch
    /\ skipped' = Append(skipped, i)
    /\ i' = i + 1
    /\ Continue("loop")
    /\ UNCHANGED <<inputVars, uploadVars, prepVars, fetchVars, selected, chunks, start_batch,
                   end_batch, built, reported, prompts, submitted, run_urls, errors>>

\* a loop that builds the request of every batch, in range or not
BuildBatchAnyRange ==
    /\ pc = "loop"
    /\ i <= Len(chunks)
    /\ built' = Append(built, Request(i))
    /\ Continue(IF ~IsFlowbio /\ args.dry_run THEN "dryrun"
                ELSE IF i = 1 THEN "confirm"
                ELSE "submit")
    /\ UNCHANGED <<inputVars, uploadVars, prepVars, fetchVars, selected, chunks, start_batch,
                   end_batch, i, skipped, reported, prompts, submitted, run_urls, errors>>

\* a loop body without the prompt: the first batch goes straight to its
\* submission
BuildBatchSkipsPrompt ==
    /\ pc = "loop"
    /\ i <= Len(chunks)
    /\ InRange(i)
    /\ built' = Append(built, Request(i))
    /\ Continue(IF ~IsFlowbio /\ args.dry_run THEN "dryrun" ELSE "submit")
    /\ UNCHANGED <<inputVars, uploadVars, prepVars, fetchVars, selected, chunks, start_batch,
                   end_batch, i, skipped, reported, prompts, submitted, run_urls, errors>>

\* a loop body that asks before every batch
BuildBatchPromptsEveryBatch ==
    /\ pc = "loop"
    /\ i <= Len(chunks)
    /\ InRange(i)
    /\ built' = Append(built, Request(i))
    /\ Continue(IF ~IsFlowbio /\ args.dry_run THEN "dryrun" ELSE "confirm")
    /\ UNCHANGED <<inputVars, uploadVars, prepVars, fetchVars, selected, chunks, start_batch,
                   end_batch, i, skipped, reported, prompts, submitted, run_urls, errors>>

\* lines 234-268 (flowbio 233-255): build the request, then the branch taken:
\* dry run (258), the prompt when i == 1 (264), else straight to the submission
BuildBatch ==
    /\ pc = "loop"
    /\ i <= Len(chunks)
    /\ InRange(i)
    /\ built' = Append(built, Request(i))
    /\ Continue(IF ~IsFlowbio /\ args.dry_run THEN "dryrun"
                ELSE IF i = 1 THEN "confirm"
                ELSE "submit")
    /\ UNCHANGED <<inputVars, uploadVars, prepVars, fetchVars, selected, chunks, start_batch,
                   end_batch, i, skipped, reported, prompts, submitted, run_urls, errors>>

\* line 260: chunk[:10], the samples listed for a batch
DisplayCap == 10

\* lines 259-261: the header line (index, batch count, size) and one line per
\* listed sample (name, id)
DryRunLines(b) ==
    [batch |-> b, total |-> Len(chunks), size |-> Len(chunks[b]),
     shown |-> [k \in 1..Min(DisplayCap, Len(chunks[b])) |->
                   [name |-> chunks[b][k].name, id |-> chunks[b][k].id]]]

\* a dry-run branch without its continue: the batch is logged and the loop
\* body goes on to the prompt and the submission
DryRunReportFallsThrough ==
    /\ pc = "dryrun"
    /\ reported' = Append(reported, DryRunLines(i))
    /\ Continue(IF i = 1 THEN "confirm" ELSE "submit")
    /\ UNCHANGED <<inputVars, uploadVars, prepVars, fetchVars, selected, chunks, start_batch,
                   end_batch, i, built, skipped, prompts, submitted, run_urls, errors>>

\* lines 258-262 (flowRNAanalysis 296-300)
DryRunReport ==
    /\ pc = "dryrun"
    /\ reported' = Append(reported, DryRunLines(i))
    /\ i' = i + 1
    /\ Continue("loop")
    /\ UNCHANGED <<inputVars, uploadVars, prepVars, fetchVars, selected, chunks, start_batch,
                   end_batch, built, skipped, prompts, submitted, run_urls, errors>>

\* a prompt whose answer is read and then ignored
PromptIgnoresAnswer ==
    /\ pc = "confirm"
    /\ \E typed \in Typed :
        /\ prompts' = Append(prompts, typed)
        /\ Continue("submit")
    /\ UNCHANGED <<inputVars, uploadVars, prepVars, fetchVars, selected, chunks, start_batch,
                   end_batch, i, built, skipped, reported, submitted, run_urls, errors>>

\* a prompt whose decline leaves with status 1
PromptDeclineExitsOne ==
    /\ pc = "confirm"
    /\ \E typed \in Typed :
        /\ prompts' = Append(prompts, typed)
        /\ IF StripLower(typed) /= "y" THEN Exit(1, "declined") ELSE Continue("submit")
    /\ UNCHANGED <<inputVars, uploadVars, prepVars, fetchVars, selected, chunks, start_batch,
                   end_batch, i, built, skipped, reported, submitted, run_urls, errors>>

\* lines 264-268 (flowbio 251-255)
Prompt ==
    /\ pc = "confirm"
    /\ \E typed \in Typed :
        /\ prompts' = Append(prompts, typed)
        /\ IF StripLower(typed) /= "y" THEN Exit(0, "declined") ELSE Continue("submit")
    /\ UNCHANGED <<inputVars, uploadVars, prepVars, fetchVars, selected, chunks, start_batch,
                   end_batch, i, built, skipped, reported, submitted, run_urls, errors>>

\* a submission that records a URL whatever the call returned
SubmitRecordAlways ==
    /\ pc = "submit"
    /\ \E outcome \in SubmitOutcomes :
        /\ submitted' = Append(submitted, [batch |-> i, request |-> built[Len(built)],
                                           outcome |-> outcome])
        /\ run_urls' = Append(run_urls, i)
        /\ i' = i + 1
        /\ Continue("loop")
        /\ UNCHANGED errors
    /\ UNCHANGED <<inputVars, uploadVars, prepVars, fetchVars, selected, chunks, start_batch,
                   end_batch, built, skipped, reported, prompts>>

\* a submission that is made again when it failed
SubmitRetriesOnFailure ==
    /\ pc = "submit"
    /\ \E outcome \in SubmitOutcomes :
        /\ submitted' = Append(submitted, [batch |-> i, request |-> built[Len(built)],
                                           outcome |-> outcome])
        /\ IF outcome = "ok"
           THEN /\ run_urls' = Append(run_urls, i)
                /\ i' = i + 1
                /\ Continue("loop")
                /\ UNCHANGED errors
           ELSE /\ errors' = Append(errors, i)
                /\ Continue("submit")
                /\ UNCHANGED <<run_urls, i>>
    /\ UNCHANGED <<inputVars, uploadVars, prepVars, fetchVars, selected, chunks, start_batch,
                   end_batch, built, skipped, reported, prompts>>

\* lines 270-282: post, _raise_for_status, the id check, the URL; an exception
\* leaves main.  flowbio lines 257-278: the same inside try/except that logs
\* the failure and continues with the next batch
Submit ==
    /\ pc = "submit"
    /\ \E outcome \in SubmitOutcomes :
        /\ submitted' = Append(submitted, [batch |-> i, request |-> built[Len(built)],
                                           outcome |-> outcome])
        /\ IF outcome = "ok"
           THEN /\ run_urls' = Append(run_urls, i)
                /\ i' = i + 1
                /\ Continue("loop")
                /\ UNCHANGED errors
           ELSE IF IsFlowbio
           THEN /\ errors' = Append(errors, i)
                /\ i' = i + 1
                /\ Continue("loop")
                /\ UNCHANGED run_urls
           ELSE /\ Exit(1, IF outcome = "error" THEN "submit_error" ELSE "no_run_id")
                /\ UNCHANGED <<run_urls, errors, i>>
    /\ UNCHANGED <<inputVars, uploadVars, prepVars, fetchVars, selected, chunks, start_batch,
                   end_batch, built, skipped, reported, prompts>>

\* lines 284-285 (flowbio 280): the loop is over, main returns
Summary ==
    /\ pc = "loop"
    /\ i > Len(chunks)
    /\ pc' = "done"
    /\ exit_status' = 0
    /\ exit_reason' = "completed"
    /\ UNCHANGED <<inputVars, uploadVars, prepVars, fetchVars, selected, chunks, start_batch,
                   end_batch, loopVars>>


-----------------------------------------------------------------------------
(* The upload tools: _patched_upload_sample and parse_rows *)

MaxFileSize == 3
MaxChunkSize == 2

Paths == {"r1.fq", "r2.fq"}

\* src/upload/uploadsample.py line 348: reads = [path1, path2] if path2 else [path1]
ReadsOf(path1, path2) == IF Truthy(path2) THEN <<path1, path2>> ELSE <<path1>>

\* line 354: math.ceil(size / chunk_size)
NumChunks(size, cs) == (size + cs - 1) \div cs

\* what one POST may come back as: 200 with data_id and sample_id, a status
\* raise_for_status raises on, or 200 without one of the keys
PostOutcomes == {"ok", "http_error", "missing_keys"}

\* lines 358-379: the form of chunk c of the file at position k
Form(k, c) ==
    LET path == reads[k]
        chunks_ == NumChunks(file_sizes[path], chunk_size)
        is_last_data == (c = chunks_ - 1)
        is_last_sample == is_last_data /\ path = reads[Len(reads)]
    IN [position |-> k, filename |-> path, chunk_num |-> c,
        is_last_sample |-> is_last_sample, is_last |-> is_last_data,
        expected_file_size |-> c * chunk_size,
        data |-> data_id, previous_data |-> previous_data]

\* lines 355-403: one iteration of the inner loop
PostChunk ==
    /\ pc = "upload"
    /\ file_k <= Len(reads)
    /\ chunk_num < NumChunks(file_sizes[reads[file_k]], chunk_size)
    /\ \E outcome \in PostOutcomes :
        LET form == Form(file_k, chunk_num)
        IN /\ posted' = Append(posted, [form |-> form, outcome |-> outcome])
           /\ IF outcome = "ok"
              THEN /\ sample_id' = "s1"
                   /\ IF form.is_last
                      THEN /\ previous_data' = Append(previous_data, file_k)
                           /\ data_id' = None
                      ELSE /\ data_id' = file_k
                           /\ UNCHANGED previous_data
                   /\ chunk_num' = chunk_num + 1
                   /\ Continue("upload")
              ELSE /\ Exit(1, outcome)
                   /\ UNCHANGED <<sample_id, previous_data, data_id, chunk_num>>
    /\ UNCHANGED <<file_sizes, reads, chunk_size, file_k, rows_spec, nrows, rows_out>>
    /\ UNCHANGED <<inputVars, prepVars, fetchVars, selected, chunks, start_batch,
                   end_batch, loopVars>>

\* lines 352-355: the inner loop is over (or the file has no chunk at all),
\* the outer loop takes the next path
NextFile ==
    /\ pc = "upload"
    /\ file_k <= Len(reads)
    /\ chunk_num >= NumChunks(file_sizes[reads[file_k]], chunk_size)
    /\ file_k' = file_k + 1
    /\ chunk_num' = 0
    /\ Continue("upload")
    /\ UNCHANGED <<file_sizes, reads, chunk_size, data_id, sample_id, previous_data,
                   posted, rows_spec, nrows, rows_out>>
    /\ UNCHANGED <<inputVars, prepVars, fetchVars, selected, chunks, start_batch,
                   end_batch, loopVars>>

\* line 406: return self.sample(sample_id)
UploadReturn ==
    /\ pc = "upload"
    /\ file_k > Len(reads)
    /\ Continue("uploaded")
    /\ UNCHANGED uploadVars
    /\ UNCHANGED <<inputVars, prepVars, fetchVars, selected, chunks, start_batch,
                   end_batch, loopVars>>

\* parse_rows (src/uploadsample.py lines 34-57; the same text in
\* src/upload/uploadsample.py 411-434, uploadsample_simple.py 42-66 and
\* uploadsample_static.py 175-199)

MaxSpecLen == 4
MaxRows == 3

Digits == {"0", "1", "3"}

\* the characters a --rows value is made of here: digits, the range dash, the
\* separator, a blank and a letter
SpecAlphabet == Digits \cup {"-", ",", " ", "x"}

DigitVal(c) == CASE c = "0" -> 0 [] c = "1" -> 1 [] c = "3" -> 3

\* str.strip()
RECURSIVE LStrip(_)
LStrip(q) == IF q /= <<>> /\ Head(q) = " " THEN LStrip(Tail(q)) ELSE q

RECURSIVE RStrip(_)
RStrip(q) ==
    IF q /= <<>> /\ q[Len(q)] = " " THEN RStrip(SubSeq(q, 1, Len(q) - 1)) ELSE q

strip(q) == RStrip(LStrip(q))

\* position of the first c in q, 0 when there is none
IndexOf(q, c) ==
    IF \E k \in DOMAIN q : q[k] = c
    THEN CHOOSE k \in DOMAIN q : q[k] = c /\ \A j \in 1..(k - 1) : q[j] /= c
    ELSE 0

\* str.split(c)
RECURSIVE split(_, _)
split(q, c) ==
    LET k == IndexOf(q, c)
    IN IF k = 0 THEN <<q>>
       ELSE <<SubSeq(q, 1, k - 1)>> \o split(Suffix(q, k), c)

\* str.split(c, 1) of a string that holds c
split_once(q, c) ==
    LET k == IndexOf(q, c) IN <<SubSeq(q, 1, k - 1), Suffix(q, k)>>

RECURSIVE DigitsValue(_)
DigitsValue(q) ==
    IF q = <<>> THEN 0
    ELSE DigitsValue(SubSeq(q, 1, Len(q) - 1)) * 10 + DigitVal(q[Len(q)])

\* int(q): blanks around, an optional sign, then digits only; <<v>> for the
\* value, <<>> for ValueError
int(q) ==
    LET t == strip(q)
        neg == t /= <<>> /\ Head(t) = "-"
        d == IF neg THEN Tail(t) ELSE t
    IN IF d /= <<>> /\ \A k \in DOMAIN d : d[k] \in Digits
       THEN <<IF neg THEN 0 - DigitsValue(d) ELSE DigitsValue(d)>>
       ELSE <<>>

\* a range part that is not clamped to 1..nrows
PartRowsUnclamped(raw, n) ==
    LET part == strip(raw)
    IN IF part = <<>> THEN {}
       ELSE IF \E k \in DOMAIN part : part[k] = "-"
       THEN LET ab == split_once(part, "-")
                a == int(ab[1])
                b == int(ab[2])
            IN IF a = <<>> \/ b = <<>> THEN {}
               ELSE IF a[1] <= b[1] THEN a[1]..b[1] ELSE {}
       ELSE LET v == int(part)
            IN IF v = <<>> THEN {}
               ELSE IF 1 <= v[1] /\ v[1] <= n THEN {v[1]} ELSE {}

\* lines 37-56: what one part adds to out
PartRows(raw, n) ==
    LET part == strip(raw)
    IN IF part = <<>> THEN {}
       ELSE IF \E k \in DOMAIN part : part[k] = "-"
       THEN LET ab == split_once(part, "-")
                a == int(ab[1])
                b == int(ab[2])
            IN IF a = <<>> \/ b = <<>> THEN {}
               ELSE LET a1 == Max(1, a[1])
                        b1 == Min(n, b[1])
                    IN IF a1 <= b1 THEN a1..b1 ELSE {}
       ELSE LET v == int(part)
            IN IF v = <<>> THEN {}
               ELSE IF 1 <= v[1] /\ v[1] <= n THEN {v[1]} ELSE {}

\* sorted(out)
RECURSIVE sorted(_)
sorted(S) ==
    IF S = {} THEN <<>>
    ELSE LET m == CHOOSE x \in S : \A y \in S : x <= y
         IN <<m>> \o sorted(S \ {m})

\* lines 34-57
parse_rows(spec, n) ==
    LET parts == split(spec, ",")
    IN sorted(UNION {PartRows(parts[k], n) : k \in DOMAIN parts})

ParseRows ==
    /\ pc = "parse"
    /\ rows_out' = parse_rows(rows_spec, nrows)
    /\ Continue("parsed")
    /\ UNCHANGED <<file_sizes, reads, chunk_size, file_k, chunk_num, data_id, sample_id,
                   previous_data, posted, rows_spec, nrows>>
    /\ UNCHANGED <<inputVars, prepVars, fetchVars, selected, chunks, start_batch,
                   end_batch, loopVars>>

UploadIdle ==
    /\ file_sizes = [p \in Paths |-> 0] /\ reads = <<>> /\ chunk_size = 1
    /\ file_k = 1 /\ chunk_num = 0
    /\ data_id = None /\ sample_id = None /\ previous_data = <<>> /\ posted = <<>>
    /\ rows_spec = <<>> /\ nrows = 0 /\ rows_out = <<>>

-----------------------------------------------------------------------------
(* Specifications *)

NoExecution == ExecutionOf(<<>>, <<>>, None)

NoArgs == [num_chunks |-> 1, start_batch |-> 1, end_batch |-> <<>>,
           dry_run |-> FALSE, filter |-> NoFilter]

PrepIdle == execution = NoExecution /\ resolved = Unresolved /\ fileset_id = None

FetchIdle == page = 1 /\ collected = <<>> /\ requests = <<>> /\ received = <<>>

LoopIdle ==
    /\ i = 1
    /\ built = <<>> /\ skipped = <<>> /\ reported = <<>> /\ prompts = <<>>
    /\ submitted = <<>> /\ run_urls = <<>> /\ errors = <<>>

Running(at) == pc = at /\ exit_status = -1 /\ exit_reason = "running"

\* the command lines of a run
RunArgs(v) ==
    IF v = "flowrunanalysis_flowbio"
    THEN [num_chunks : 0..MaxRunChunks,
          start_batch : 0..MaxRunChunks,
          end_batch : {<<>>} \cup {<<k>> : k \in 0..MaxRunChunks},
          dry_run : {FALSE},
          filter : RunFilters(v)]
    ELSE [num_chunks : 0..MaxRunChunks,
          start_batch : {1},
          end_batch : {<<>>},
          dry_run : BOOLEAN,
          filter : RunFilters(v)]

\* a whole run of one of the three scripts
Init ==
    /\ variant \in Variants
    /\ args \in RunArgs(variant)
    /\ roster \in {RosterOf(L) : L \in 0..MaxRunSamples}
    /\ page_size = RunPageSize
    /\ server = "failing"
    /\ file_map = FILE_MAP
    /\ samples_in = <<>>
    /\ PrepIdle /\ FetchIdle /\ LoopIdle /\ UploadIdle
    /\ selected = <<>> /\ chunks = <<>> /\ start_batch = 0 /\ end_batch = 0
    /\ Running("start")

Next ==
    \/ Startup
    \/ FetchPrep
    \/ FetchPage
    \/ FilterStep
    \/ Partition
    \/ RangeStep
    \/ SkipBatch
    \/ BuildBatch
    \/ DryRunReport
    \/ Prompt
    \/ Submit
    \/ Summary

Spec == Init /\ [][Next]_vars

\* build_data_params_from_execution on its own (the three scripts hold the same
\* text of it, so one of them stands for all)
Resolve ==
    /\ pc = "resolve"
    /\ resolved' = build_data_params_from_execution(execution, file_map)
    /\ Continue("resolved")
    /\ UNCHANGED <<inputVars, uploadVars, execution, fileset_id, fetchVars, selected, chunks,
                   start_batch, end_batch, loopVars>>

InitResolve ==
    /\ variant = "flowrunanalysis"
    /\ args = NoArgs
    /\ execution \in ExecutionRecords
    /\ file_map \in FileMaps
    /\ resolved = Unresolved /\ fileset_id = None
    /\ roster = <<>> /\ page_size = RunPageSize /\ server = "exact" /\ samples_in = <<>>
    /\ FetchIdle /\ LoopIdle /\ UploadIdle
    /\ selected = <<>> /\ chunks = <<>> /\ start_batch = 0 /\ end_batch = 0
    /\ Running("resolve")

SpecResolve == InitResolve /\ [][Resolve]_vars

\* fetch_all_project_samples on its own
InitFetch ==
    /\ variant \in Variants
    /\ args = NoArgs
    /\ roster \in {RosterOf(L) : L \in 0..MaxRoster}
    /\ page_size \in 1..MaxPageSize
    /\ server \in {"exact", "failing", "short"}
    /\ file_map = FILE_MAP
    /\ samples_in = <<>>
    /\ PrepIdle /\ FetchIdle /\ LoopIdle /\ UploadIdle
    /\ selected = <<>> /\ chunks = <<>> /\ start_batch = 0 /\ end_batch = 0
    /\ Running("fetch")

SpecFetch == InitFetch /\ [][FetchPage]_vars

\* the same loop run to its end, also against an endless server: the loop is
\* sequential code and every request has a timeout, so a pending iteration
\* is always carried out
InitPaging ==
    /\ variant = "flowrunanalysis"
    /\ args = NoArgs
    /\ roster \in {RosterOf(L) : L \in 0..MaxRoster}
    /\ page_size \in 1..MaxPageSize
    /\ server \in {"exact", "failing", "short", "endless"}
    /\ file_map = FILE_MAP
    /\ samples_in = <<>>
    /\ PrepIdle /\ FetchIdle /\ LoopIdle /\ UploadIdle
    /\ selected = <<>> /\ chunks = <<>> /\ start_batch = 0 /\ end_batch = 0
    /\ Running("fetch")

SpecPaging == InitPaging /\ [][FetchPage]_vars /\ WF_vars(FetchPage)

\* filter_by_sample_name on its own
SampleNames == SeqUpTo(Alphabet, MaxNameLen) \cup {NoName}

SampleLists ==
    {[k \in DOMAIN names |-> [id |-> k, name |-> names[k]]] :
        names \in SeqUpTo(SampleNames, MaxFilterSamples)}

GlobPatterns ==
    {<<"*">>, <<"?">>, <<"a">>, <<"*", "a">>, <<"a", "*">>, <<"?", "b">>,
     <<"a", "b">>, <<"*", "b", "*">>}

RegexPatterns ==
    {<<".*">>, <<".">>, <<"a">>, <<"a", "$">>, <<"^", "a">>, <<"^", "$">>,
     <<"a", "b">>, <<"^", ".", "b", "$">>, <<"(">>, <<"(", "a">>}

PatternsOf(v) ==
    {NoPattern, <<>>} \cup
    (IF v = "flowrunanalysis_flowbio" THEN RegexPatterns ELSE GlobPatterns)

Filter ==
    /\ pc = "filter"
    /\ LET r == filter_by_sample_name(variant, samples_in, args.filter.value)
       IN /\ selected' = r.samples
          /\ IF r.kind = "ok" THEN Continue("filtered") ELSE Exit(1, "bad_regex")
    /\ UNCHANGED <<inputVars, uploadVars, prepVars, fetchVars, chunks, start_batch, end_batch, loopVars>>

InitFilter ==
    /\ variant \in Variants
    /\ samples_in \in SampleLists
    /\ \E pat \in PatternsOf(variant) :
        args = [NoArgs EXCEPT !.filter = [key |-> "sample_name", value |-> pat]]
    /\ roster = <<>> /\ page_size = RunPageSize /\ server = "exact" /\ file_map = FILE_MAP
    /\ PrepIdle /\ FetchIdle /\ LoopIdle /\ UploadIdle
    /\ selected = <<>> /\ chunks = <<>> /\ start_batch = 0 /\ end_batch = 0
    /\ Running("filter")

SpecFilter == InitFilter /\ [][Filter]_vars

\* the partition step on its own, on every non-empty selection
InitPartition ==
    /\ variant \in Variants
    /\ \E n \in (0 - 1)..MaxChunks : args = [NoArgs EXCEPT !.num_chunks = n]
    /\ selected \in {RosterOf(L) : L \in 1..MaxPartLen}
    /\ roster = <<>> /\ page_size = RunPageSize /\ server = "exact" /\ file_map = FILE_MAP
    /\ samples_in = <<>>
    /\ PrepIdle /\ FetchIdle /\ LoopIdle /\ UploadIdle
    /\ chunks = <<>> /\ start_batch = 0 /\ end_batch = 0
    /\ Running("partition")

SpecPartition == InitPartition /\ [][Partition]_vars


\* _patched_upload_sample on its own: one or two read files of every size
InitUpload ==
    /\ variant = "flowrunanalysis"
    /\ args = NoArgs
    /\ roster = <<>> /\ page_size = RunPageSize /\ server = "exact" /\ file_map = FILE_MAP
    /\ samples_in = <<>>
    /\ PrepIdle /\ FetchIdle /\ LoopIdle
    /\ selected = <<>> /\ chunks = <<>> /\ start_batch = 0 /\ end_batch = 0
    /\ file_sizes \in [Paths -> 0..MaxFileSize]
    /\ \E path1 \in Paths, path2 \in Paths \cup {None} : reads = ReadsOf(path1, path2)
    /\ chunk_size \in 1..MaxChunkSize
    /\ file_k = 1 /\ chunk_num = 0
    /\ data_id = None /\ sample_id = None /\ previous_data = <<>> /\ posted = <<>>
    /\ rows_spec = <<>> /\ nrows = 0 /\ rows_out = <<>>
    /\ Running("upload")

NextUpload == PostChunk \/ NextFile \/ UploadReturn

SpecUpload == InitUpload /\ [][NextUpload]_vars

\* parse_rows on its own, on every short --rows value
InitParse ==
    /\ variant = "flowrunanalysis"
    /\ args = NoArgs
    /\ roster = <<>> /\ page_size = RunPageSize /\ server = "exact" /\ file_map = FILE_MAP
    /\ samples_in = <<>>
    /\ PrepIdle /\ FetchIdle /\ LoopIdle
    /\ selected = <<>> /\ chunks = <<>> /\ start_batch = 0 /\ end_batch = 0
    /\ file_sizes = [p \in Paths |-> 0] /\ reads = <<>> /\ chunk_size = 1
    /\ file_k = 1 /\ chunk_num = 0
    /\ data_id = None /\ sample_id = None /\ previous_data = <<>> /\ posted = <<>>
    /\ rows_spec \in SeqUpTo(SpecAlphabet, MaxSpecLen)
    /\ nrows \in 0..MaxRows
    /\ rows_out = <<>>
    /\ Running("parse")

SpecParse == InitParse /\ [][ParseRows]_vars

-----------------------------------------------------------------------------
(* Properties *)

SeqRange(q) == {q[k] : k \in DOMAIN q}

\* every file record the execution lists, wherever it sits
ListedRecords(ex) ==
    SeqRange(ex.data_params) \cup
    UNION {SeqRange(ex.process_executions[p].downstream_data) : p \in DOMAIN ex.process_executions}

ListedNames(ex) == {f.filename : f \in {g \in ListedRecords(ex) : g.filename /= None}}

MapKeys(fmap) == {fmap[k][1] : k \in DOMAIN fmap}

IsAbsent(item) == item[2] \notin ListedNames(execution)

\* C1: the resolver is all-or-nothing.  When every expected filename is listed
\* by the execution it returns a mapping whose keys are exactly the file map's
\* keys, each bound to the id of a record carrying the expected filename; when
\* some are not, it raises one error listing exactly the (logical name,
\* expected filename) pairs whose filename is listed nowhere, in file-map
\* order, and returns no mapping at all.
C1_AllOrNothing ==
    pc = "resolved" =>
        IF \E k \in DOMAIN file_map : IsAbsent(file_map[k])
        THEN /\ resolved.kind = "RuntimeError"
             /\ resolved.missing = SelectSeq(file_map, IsAbsent)
             /\ resolved.data_params = EmptyMap
        ELSE /\ resolved.kind = "ok"
             /\ DOMAIN resolved.data_params = MapKeys(file_map)
             /\ \A k \in DOMAIN file_map :
                    \E f \in ListedRecords(execution) :
                        /\ f.filename = file_map[k][2]
                        /\ resolved.data_params[file_map[k][1]] = f.id

\* the resolver raised although one of two expected files was there to bind
C1_Witness ==
    /\ pc = "resolved"
    /\ resolved.kind = "RuntimeError"
    /\ Len(file_map) = 2
    /\ Len(resolved.missing) = 1

\* the id of the first record named fn: among the declared inputs if any has
\* the name, else in the first process execution whose downstream_data has it
FirstSeenId(ex, fn) ==
    LET inHits == {k \in DOMAIN ex.data_params : ex.data_params[k].filename = fn}
        hits(p) == {d \in DOMAIN ex.process_executions[p].downstream_data :
                        ex.process_executions[p].downstream_data[d].filename = fn}
        procHits == {p \in DOMAIN ex.process_executions : hits(p) /= {}}
    IN IF inHits /= {}
       THEN ex.data_params[CHOOSE k \in inHits : \A j \in inHits : k <= j].id
       ELSE LET p == CHOOSE q \in procHits : \A r \in procHits : q <= r
                d == CHOOSE e \in hits(p) : \A g \in hits(p) : e <= g
            IN ex.process_executions[p].downstream_data[d].id

\* C2: when several records share a filename the logical name is bound to the
\* id of the first of them in candidate order (declared inputs, then each
\* process execution's downstream_data in listed order).
C2_FirstSeenWins ==
    (pc = "resolved" /\ resolved.kind = "ok") =>
        \A k \in DOMAIN file_map :
            resolved.data_params[file_map[k][1]] = FirstSeenId(execution, file_map[k][2])

\* a bound filename is carried by two records, one of them a declared input
C2_Witness ==
    /\ pc = "resolved"
    /\ resolved.kind = "ok"
    /\ \E k \in DOMAIN file_map :
        /\ Cardinality({f \in ListedRecords(execution) : f.filename = file_map[k][2]}) >= 2
        /\ \E j \in DOMAIN execution.data_params :
              execution.data_params[j].filename = file_map[k][2]

\* C3: against a server that serves the roster page by page, the fetch asks
\* for pages 1, 2, 3, ... in turn, ends after floor(L / page_size) + 1
\* requests and returns the whole roster in server order.
C3_ExactPaging ==
    server = "exact" =>
        /\ requests = [k \in 1..Len(requests) |-> k]
        /\ pc /= "exited"
        /\ pc = "fetched" =>
              /\ Len(requests) = (Len(roster) \div page_size) + 1
              /\ collected = roster

\* a roster of exactly two full pages took three requests
C3_Witness ==
    /\ server = "exact"
    /\ pc = "fetched"
    /\ Len(roster) = 2 * page_size
    /\ requests = <<1, 2, 3>>

FilterPattern == args.filter.value

\* the test the filter applies to sample k of its input, a missing name
\* standing for the empty string
SampleMatches(k) ==
    LET nm == IF samples_in[k].name = NoName THEN <<>> ELSE samples_in[k].name
    IN IF IsFlowbio THEN re_search(nm, FilterPattern) ELSE fnmatch(nm, FilterPattern)

MatchingPositions == {k \in DOMAIN samples_in : SampleMatches(k)}

\* C4: the filter returns exactly the samples whose name matches, in their
\* original relative order: its j-th result is the input sample at the j-th
\* smallest matching position; with no pattern it returns its input.
C4_FilterSubsequence ==
    pc = "filtered" =>
        IF PatternAbsent(FilterPattern)
        THEN selected = samples_in
        ELSE /\ Len(selected) = Cardinality(MatchingPositions)
             /\ \A j \in DOMAIN selected :
                    \E k \in MatchingPositions :
                        /\ Cardinality({m \in MatchingPositions : m <= k}) = j
                        /\ selected[j] = samples_in[k]

\* two samples pass a pattern, the second of them without a name
C4_Witness ==
    /\ pc = "filtered"
    /\ ~PatternAbsent(FilterPattern)
    /\ Len(samples_in) = 2
    /\ samples_in[2].name = NoName
    /\ samples_in[1].name /= <<>>
    /\ Len(selected) = 2

BatchCount == IF args.num_chunks < 1 THEN 1 ELSE args.num_chunks

CeilDiv(a, b) == (a + b - 1) \div b

Partitioned == pc \in {"range", "loop", "dryrun", "confirm", "submit", "done"}

\* C5: the partition has max(1, n) batches; the first L mod n of them hold
\* ceil(L / n) samples and the others floor(L / n), so sizes differ by at most
\* one and never grow along the batch order.
C5_BatchSizes ==
    Partitioned =>
        LET L == Len(selected)
        IN /\ L >= 1
           /\ Len(chunks) = BatchCount
           /\ \A k \in DOMAIN chunks :
                  Len(chunks[k]) = IF k <= L % BatchCount
                                   THEN CeilDiv(L, BatchCount)
                                   ELSE L \div BatchCount
           /\ \A j, k \in DOMAIN chunks :
                  /\ Len(chunks[j]) - Len(chunks[k]) <= 1
                  /\ j <= k => Len(chunks[j]) >= Len(chunks[k])

\* three batches of unequal size: the analogue of 10 samples in 3 batches
C5_Witness ==
    /\ Partitioned
    /\ Len(chunks) = 3
    /\ Len(chunks[1]) = Len(chunks[3]) + 1
    /\ Len(chunks[2]) = Len(chunks[3])
    /\ Len(chunks[3]) >= 1

\* C6: the batches are contiguous and disjoint: joined in batch order they
\* give back the filtered list, and each filtered sample sits in one batch.
C6_BatchesPartition ==
    Partitioned =>
        /\ Flatten(chunks) = selected
        /\ \A k \in DOMAIN selected :
               Cardinality({b \in DOMAIN chunks :
                               selected[k] \in SeqRange(chunks[b])}) = 1

\* several batches, each with more than one sample
C6_Witness ==
    /\ Partitioned
    /\ Len(chunks) >= 2
    /\ \A b \in DOMAIN chunks : Len(chunks[b]) >= 2

\* the range as given on the command line
InArgRange(b) ==
    /\ args.start_batch <= b
    /\ args.end_batch = <<>> \/ b <= args.end_batch[1]

BatchesOf(q) == {q[k].batch : k \in DOMAIN q}

\* C7: in the flowbio variant no batch outside start..end is ever built or
\* submitted and no batch inside it is ever logged as skipped; every batch
\* the loop has gone past was built and submitted if inside the range and
\* skipped if outside; whatever the range, there are max(1, n) batches and
\* together they hold the filtered list.
C7_RangeRestricts ==
    IsFlowbio =>
        /\ \A b \in BatchesOf(built) \cup BatchesOf(submitted) : InArgRange(b)
        /\ \A b \in SeqRange(skipped) : ~InArgRange(b)
        /\ pc \in {"loop", "confirm", "submit", "done"} =>
              /\ Len(chunks) = BatchCount
              /\ Flatten(chunks) = selected
              /\ \A b \in 1..(i - 1) :
                    IF InArgRange(b)
                    THEN b \in BatchesOf(built) /\ b \in BatchesOf(submitted)
                    ELSE b \in SeqRange(skipped)

\* a finished run that skipped the first and the last batch and submitted
\* what lies between
C7_Witness ==
    /\ IsFlowbio
    /\ pc = "done"
    /\ Len(chunks) >= 3
    /\ skipped = <<1, Len(chunks)>>
    /\ submitted /= <<>>
    /\ BatchesOf(submitted) = 2..(Len(chunks) - 1)

Ended == pc \in {"done", "exited"}

\* C8: in every variant, once a submission call has been issued, the run does
\* not end before every batch of the range that holds samples had its
\* submission attempted, whatever the calls returned.
C8_FailureSkipsOnlyThatBatch ==
    (Ended /\ submitted /= <<>>) =>
        \A b \in DOMAIN chunks :
            (InRange(b) /\ chunks[b] /= <<>>) => b \in BatchesOf(submitted)

FailedCalls == {k \in DOMAIN submitted : submitted[k].outcome /= "ok"}

BatchesInRange == {b \in DOMAIN chunks : InArgRange(b)}

\* C9: at the summary of the flowbio variant the number of recorded URLs is
\* the number of batches in range minus the number of failed submissions,
\* and every batch in range had exactly one submission, in batch order.
C9_SummaryCount ==
    (IsFlowbio /\ pc = "done") =>
        /\ Len(run_urls) = Cardinality(BatchesInRange) - Cardinality(FailedCalls)
        /\ Len(submitted) = Cardinality(BatchesInRange)
        /\ BatchesOf(submitted) = BatchesInRange
        /\ \A j, k \in DOMAIN submitted : j < k => submitted[j].batch < submitted[k].batch

\* one failure among three batches in range: two URLs at the summary
C9_Witness ==
    /\ IsFlowbio
    /\ pc = "done"
    /\ Cardinality(BatchesInRange) = 3
    /\ Cardinality(FailedCalls) = 1
    /\ submitted[1].outcome /= "ok"
    /\ Len(run_urls) = 2

\* C10: no submission call (here: of a batch that holds samples) is issued
\* unless the operator was prompted earlier in the run and answered y.
C10_PromptBeforeSubmission ==
    (\E k \in DOMAIN submitted : chunks[submitted[k].batch] /= <<>>) =>
        /\ prompts /= <<>>
        /\ StripLower(prompts[Len(prompts)]) = "y"

\* C11: in flowrunanalysis and flowRNAanalysis a --dry-run run never prompts,
\* never issues a submission call and records no URL; once the batches are
\* computed the run can only end normally (status 0), and by then every
\* computed batch was reported, in order, with its index, its size and the
\* names and ids of its samples (the first DisplayCap of them).
C11_DryRunSubmitsNothing ==
    (~IsFlowbio /\ args.dry_run) =>
        /\ prompts = <<>> /\ submitted = <<>> /\ run_urls = <<>>
        /\ chunks /= <<>> => pc /= "exited"
        /\ \A k \in DOMAIN reported :
              /\ reported[k].batch = k
              /\ reported[k].size = Len(chunks[k])
              /\ reported[k].shown =
                    [j \in 1..Min(DisplayCap, Len(chunks[k])) |->
                        [name |-> chunks[k][j].name, id |-> chunks[k][j].id]]
        /\ pc = "done" => /\ exit_status = 0
                          /\ Len(reported) = Len(chunks)

C11_Witness ==
    /\ ~IsFlowbio /\ args.dry_run
    /\ pc = "done"
    /\ Len(chunks) >= 2
    /\ Len(reported) = Len(chunks)
    /\ \E k \in DOMAIN chunks : Len(chunks[k]) >= 2

\* the operator was prompted and the last answer was not y
Declined == prompts /= <<>> /\ StripLower(prompts[Len(prompts)]) /= "y"

\* C12: once the operator has answered anything other than y the run is
\* over: in that state and ever after no submission call has been issued, no
\* URL recorded, no failure logged, and the only request built is the one of
\* batch 1, built before the prompt; the loop never moved past batch 1.
C12_DeclineStopsRun ==
    Declined =>
        /\ pc = "exited"
        /\ submitted = <<>> /\ run_urls = <<>> /\ errors = <<>>
        /\ i = 1
        /\ BatchesOf(built) = {1} /\ Len(built) = 1
        /\ skipped = <<>> /\ reported = <<>>

C12_Witness ==
    /\ Declined
    /\ prompts[Len(prompts)] = "n"
    /\ Len(chunks) >= 2
    /\ pc = "exited"

\* C13: when the operator declines the confirmation prompt, the process exits
\* with a non-zero status.
C13_DeclineExitsNonZero ==
    Declined => (pc = "exited" /\ exit_status /= 0)

\* C13 as the code has it: when the operator declines the confirmation
\* prompt, the process exits at once with status 0 (sys.exit(0)).
C13_DeclineExitsZero ==
    /\ Declined => (pc = "exited" /\ exit_status = 0 /\ exit_reason = "declined")
    /\ exit_reason = "declined" => Declined

C13_Witness ==
    /\ Declined
    /\ prompts[Len(prompts)] = ""
    /\ pc = "exited" /\ exit_status = 0

\* the ways a run ends early on an error: login, preparation request, fileset
\* check, resolver, roster request, --filter key, pattern, empty selection,
\* start batch, submission (REST variants)
FatalReasons ==
    {"login", "http_prep", "no_fileset", "missing_refs", "http_roster",
     "bad_filter_key", "bad_regex", "empty", "start_exceeds", "submit_error",
     "no_run_id"}

\* C14: the exit status is 0 when the run completes normally and when the
\* operator declines the prompt, and non-zero for every fatal error (among
\* them resolver failure, roster fetch failure, invalid filter pattern, empty
\* filtered set, start batch beyond the batch count); a run that ended did
\* so in exactly one of these ways, and a run still going has no status.
C14_ExitStatus ==
    /\ pc = "done" => (exit_status = 0 /\ exit_reason = "completed")
    /\ exit_reason = "declined" => (pc = "exited" /\ exit_status = 0)
    /\ exit_reason \in FatalReasons => (pc = "exited" /\ exit_status /= 0)
    /\ pc = "exited" => exit_reason \in FatalReasons \cup {"declined"}
    /\ resolved.kind = "RuntimeError" => exit_reason = "missing_refs"
    /\ (pc = "exited" /\ chunks /= <<>> /\ Max(1, args.start_batch) > Len(chunks)
            /\ IsFlowbio) => exit_reason = "start_exceeds"
    /\ ~Ended => exit_status = -1

C14_Witness ==
    /\ IsFlowbio
    /\ pc = "exited"
    /\ exit_reason = "bad_regex"
    /\ exit_status = 1
    /\ collected /= <<>>

\* the filter step is behind the run
Filtered == pc \notin {"start", "prep", "fetch", "fetched"}

\* C15: a run whose filtered sample list is empty has failed by the end of
\* the filter step, with a non-zero status: no partition was computed, no
\* batch built, skipped or reported, no prompt shown, no submission issued.
\* The partition is never computed from 0 samples: whenever batches exist the
\* selection they were cut from holds at least one sample.
C15_EmptySelectionFails ==
    /\ (Filtered /\ selected = <<>>) =>
          /\ pc = "exited" /\ exit_status /= 0
          /\ chunks = <<>>
          /\ built = <<>> /\ skipped = <<>> /\ reported = <<>>
          /\ prompts = <<>> /\ submitted = <<>> /\ run_urls = <<>>
    /\ exit_reason = "empty" => (Filtered /\ selected = <<>>)
    /\ (pc = "partition" \/ chunks /= <<>>) => Len(selected) >= 1

C15_Witness ==
    /\ exit_reason = "empty"
    /\ selected = <<>>
    /\ collected /= <<>>
    /\ args.filter.key = "sample_name"
    /\ pc = "exited" /\ exit_status = 1

\* the flowbio run was given --filter sample_name with a pattern re.compile
\* rejects
BadPattern ==
    /\ IsFlowbio
    /\ args.filter.key = "sample_name"
    /\ ~PatternAbsent(args.filter.value)
    /\ ~re_valid(args.filter.value)

\* C16: a flowbio run with an invalid regular expression never gets past
\* the filter step: nothing is selected, no partition computed, no batch
\* built or skipped, no prompt shown, no submission issued; if the run reaches
\* the filter step it ends there with a non-zero status, and a run only ends
\* that way on such a pattern, after the roster was fetched.
C16_InvalidRegexFails ==
    /\ BadPattern =>
          /\ pc \in {"start", "prep", "fetch", "fetched", "exited"}
          /\ selected = <<>> /\ chunks = <<>>
          /\ built = <<>> /\ skipped = <<>>
          /\ prompts = <<>> /\ submitted = <<>> /\ run_urls = <<>>
          /\ pc = "exited" =>
                /\ exit_status /= 0
                /\ exit_reason \in {"login", "http_prep", "missing_refs",
                                     "http_roster", "bad_regex"}
    /\ exit_reason = "bad_regex" =>
          /\ BadPattern
          /\ pc = "exited"
          /\ collected = roster

C16_Witness ==
    /\ BadPattern
    /\ exit_reason = "bad_regex"
    /\ Len(collected) >= 2
    /\ exit_status = 1

\* the flowbio run computed its batches and --start-batch is beyond them
StartBeyond == IsFlowbio /\ chunks /= <<>> /\ args.start_batch > Len(chunks)

\* C17: in the flowbio variant a start batch greater than the number of
\* computed batches is fatal: once the range step is done the run has exited
\* with a non-zero status, the loop never ran (no batch built or skipped),
\* no prompt was shown and no submission issued; and a run only ends that
\* way when the start batch is beyond the batches.
C17_StartBeyondIsFatal ==
    /\ (StartBeyond /\ pc /= "range") =>
          /\ pc = "exited" /\ exit_status /= 0
          /\ exit_reason = "start_exceeds"
          /\ i = 1
          /\ built = <<>> /\ skipped = <<>>
          /\ prompts = <<>> /\ submitted = <<>>
          /\ run_urls = <<>> /\ errors = <<>>
    /\ exit_reason = "start_exceeds" => StartBeyond

C17_Witness ==
    /\ StartBeyond
    /\ Len(chunks) = 2 /\ args.start_batch = 3
    /\ pc = "exited" /\ exit_reason = "start_exceeds" /\ exit_status = 1

\* the flowbio run is in its batch loop or has finished it
RangeApplied == IsFlowbio /\ pc \in {"loop", "confirm", "submit", "done"}

\* C18: in the flowbio variant the range the loop uses is the given one
\* clamped into [1, n], n the number of batches: a start below 1 is 1, an end
\* above n is n, an end below 1 is 1, so 1 <= start and 1 <= end <= n.
C18_RangeClamped ==
    RangeApplied =>
        /\ start_batch = Max(1, args.start_batch)
        /\ 1 <= start_batch
        /\ args.end_batch = <<>> => end_batch = Len(chunks)
        /\ args.end_batch /= <<>> =>
              end_batch = Max(1, Min(args.end_batch[1], Len(chunks)))
        /\ 1 <= end_batch /\ end_batch <= Len(chunks)

\* the preparation execution was fetched and its record has no fileset id
NoFilesetId == execution /= NoExecution /\ ~Truthy(execution.fileset)

\* C19: in every variant a preparation execution whose record has a missing
\* or empty fileset id is fatal: the run has aborted with a non-zero status
\* and no submission call was or will be issued.
C19_NoFilesetIsFatal ==
    NoFilesetId =>
        /\ pc = "exited" /\ exit_status /= 0
        /\ submitted = <<>> /\ run_urls = <<>>

\* the run is over with a non-zero status and nothing was selected, cut into
\* batches, built, prompted or submitted
AbortedBeforeBatches ==
    /\ pc = "exited" /\ exit_status /= 0
    /\ selected = <<>> /\ chunks = <<>>
    /\ built = <<>> /\ skipped = <<>> /\ reported = <<>>
    /\ prompts = <<>> /\ submitted = <<>> /\ run_urls = <<>>

\* the fetched preparation execution lacks an expected reference file
ReferenceMissing ==
    /\ execution /= NoExecution
    /\ \E k \in DOMAIN file_map : IsAbsent(file_map[k])

\* C20: when reference resolution fails (an expected file is missing, the
\* resolver raised) or a roster page request returns a non-success status,
\* the whole run aborts with nothing selected, built, prompted or submitted.
\* Whatever is selected or cut into batches comes from the complete roster
\* and a complete binding map, and every request built carries a binding for
\* every key of the file map.
C20_FailedPhaseAborts ==
    /\ (ReferenceMissing \/ resolved.kind = "RuntimeError") => AbortedBeforeBatches
    /\ exit_reason = "http_roster" => AbortedBeforeBatches
    /\ (selected /= <<>> \/ chunks /= <<>>) =>
          /\ collected = roster
          /\ resolved.kind = "ok"
          /\ DOMAIN resolved.data_params = MapKeys(file_map)
    /\ \A k \in DOMAIN built :
          DOMAIN built[k].data_params = MapKeys(file_map)

C20_Witness ==
    /\ exit_reason = "http_roster"
    /\ collected /= <<>> /\ Len(collected) < Len(roster)
    /\ resolved.kind = "ok"
    /\ AbortedBeforeBatches

\* the phases of a run in their order; the per-batch steps share one rank
PhaseRank(at) ==
    CASE at = "start" -> 0
      [] at = "prep" -> 1
      [] at = "fetch" -> 2
      [] at = "fetched" -> 3
      [] at = "partition" -> 4
      [] at = "range" -> 5
      [] at \in {"loop", "dryrun", "confirm", "submit"} -> 6
      [] at = "done" -> 7
      [] OTHER -> 8

\* one step of a run: the next phase, the next step of the batch at hand
\* (built, then reported, or confirmed when it is batch 1, then submitted),
\* the next batch, or the end of the run on an error or a declined prompt
PhaseStep ==
    \/ pc' = "exited"
    \/ /\ PhaseRank(pc) < 6
       /\ PhaseRank(pc') = PhaseRank(pc) + 1 \/ (pc = "fetch" /\ pc' = "fetch")
             \/ (pc = "partition" /\ pc' = "loop" /\ ~IsFlowbio)
    \/ /\ pc = "loop" /\ pc' = "loop" /\ i' = i + 1 /\ built' = built
    \/ /\ pc = "loop" /\ pc' \in {"dryrun", "confirm", "submit"}
       /\ built' = Append(built, Request(i)) /\ i' = i
       /\ pc' = "confirm" => i = 1
       /\ pc' = "submit" => i > 1
    \/ /\ pc = "confirm" /\ pc' = "submit" /\ i' = i
       /\ StripLower(prompts'[Len(prompts')]) = "y"
    \/ /\ pc \in {"dryrun", "submit"} /\ pc' = "loop" /\ i' = i + 1
       /\ pc = "submit" => /\ Len(submitted') = Len(submitted) + 1
                           /\ submitted'[Len(submitted')].batch = i
                           /\ Len(run_urls') <= Len(run_urls) + 1
    \/ pc = "loop" /\ pc' = "done" /\ i > Len(chunks)

\* what every state with a submission call behind it holds: the bindings
\* were resolved, the whole roster fetched, the selection filtered from it
\* and cut into the batches; each call was made with a request built before
\* it, and each URL belongs to a call made before it
PhaseInv ==
    /\ pc = "start" => (PrepIdle /\ FetchIdle /\ LoopIdle)
    /\ PhaseRank(pc) \in 2..7 => resolved.kind = "ok"
    /\ PhaseRank(pc) \in 3..7 => collected = roster
    /\ PhaseRank(pc) \in 4..7 =>
          (selected /= <<>> /\
           selected = filter_by_sample_name(variant, collected, args.filter.value).samples)
    /\ PhaseRank(pc) \in 5..7 =>
          chunks = array_split(selected, Max(1, args.num_chunks))
    /\ PhaseRank(pc) < 5 => (chunks = <<>> /\ LoopIdle)
    /\ PhaseRank(pc) < 4 => selected = <<>>
    /\ submitted /= <<>> =>
          /\ resolved.kind = "ok" /\ collected = roster
          /\ selected = filter_by_sample_name(variant, collected, args.filter.value).samples
          /\ chunks = array_split(selected, Max(1, args.num_chunks))
    /\ Len(submitted) <= Len(built)
    /\ \A k \in DOMAIN submitted :
          \E j \in DOMAIN built : built[j] = submitted[k].request
                                    /\ built[j].batch = submitted[k].batch
    /\ \A k \in DOMAIN run_urls :
          \E j \in DOMAIN submitted : submitted[j].batch = run_urls[k]
                                        /\ submitted[j].outcome = "ok"
    /\ pc = "submit" => (built /= <<>> /\ built[Len(built)].batch = i)

\* C21: every run goes through its phases in the fixed order (start,
\* references resolved, roster fetched, filtered, partitioned, the per-batch
\* steps, summary); a submission call is only ever issued after resolution,
\* roster fetch, filtering and partitioning completed; within a batch the
\* request is built, then the prompt answered when one applies, then the call
\* made, then its URL recorded.
C21_PhaseOrder == []PhaseInv /\ [][PhaseStep]_vars

C21_Witness ==
    /\ pc = "done"
    /\ ~IsFlowbio
    /\ args.filter.key = "sample_name"
    /\ prompts = <<"y">>
    /\ Len(submitted) = 2 /\ Len(run_urls) = 2

\* the batch indices of q grow strictly from entry to entry
StrictlyIncreasing(q) ==
    \A j, k \in DOMAIN q : j < k => q[j] < q[k]

BatchIndices(q) == [k \in DOMAIN q |-> q[k].batch]

\* C22: within one run each batch is submitted at most once and never again
\* after its call failed or succeeded; batches are built, skipped, reported
\* and submitted one at a time in strictly increasing batch index, every one
\* of them behind the loop position or at it, and at most one built request
\* is waiting for its call.
C22_AtMostOnceInOrder ==
    /\ StrictlyIncreasing(BatchIndices(submitted))
    /\ StrictlyIncreasing(BatchIndices(built))
    /\ StrictlyIncreasing(skipped)
    /\ StrictlyIncreasing(run_urls)
    /\ StrictlyIncreasing(errors)
    /\ \A b \in 1..Len(chunks) :
          Cardinality({k \in DOMAIN submitted : submitted[k].batch = b}) <= 1
    /\ \A k \in DOMAIN submitted : submitted[k].batch < i \/ pc = "exited"
    /\ \A k \in DOMAIN built : built[k].batch <= i
    /\ Len(built) <= Len(submitted) + Len(reported) + 1

C22_Witness ==
    /\ pc = "done"
    /\ IsFlowbio
    /\ BatchIndices(submitted) = <<1, 2, 3>>
    /\ errors = <<2>>
    /\ run_urls = <<1, 3>>

\* the sample rows of a request as (sample, group, replicate) records,
\* whichever shape the variant sends them in
RowsOf(req) ==
    IF IsFlowbio
    THEN {[sample |-> id, group |-> req.rows[id].group,
           replicate |-> req.rows[id].replicate] : id \in DOMAIN req.rows}
    ELSE {req.rows[k] : k \in DOMAIN req.rows}

RowCount(req) ==
    IF IsFlowbio THEN Cardinality(DOMAIN req.rows) ELSE Len(req.rows)

\* C23: in every variant the request submitted for a batch carries the
\* resolved reference bindings, the preparation execution's fileset id, and
\* exactly one row per sample of that batch and of no other batch, each row
\* with the sample's id, group equal to its name and replicate "1".
C23_RequestContents ==
    \A k \in DOMAIN submitted :
        LET req == submitted[k].request
            chunk == chunks[submitted[k].batch]
        IN /\ req.data_params = resolved.data_params
           /\ DOMAIN req.data_params = MapKeys(file_map)
           /\ Truthy(req.fileset) /\ req.fileset = execution.fileset
           /\ RowCount(req) = Len(chunk)
           /\ RowsOf(req) = {[sample |-> chunk[j].id, group |-> chunk[j].name,
                               replicate |-> "1"] : j \in DOMAIN chunk}

\* the samples of the pages received so far, in order
PagesReceived == Flatten([k \in DOMAIN received |-> received[k].samples])

IsPrefix(p, q) == Len(p) <= Len(q) /\ p = SubSeq(q, 1, Len(p))

\* C24: fetch_all_project_samples stops at the first page that holds fewer
\* than page_size samples (or none) and requests no page after it: every
\* page before the last one received was full, the last one is short or
\* empty, and the result is the concatenation of all of them.  It is always a
\* prefix of the roster, returned without an error; when a short page came
\* before the true end, it is a strict prefix and the rest is missing.
C24_StopsAtShortPage ==
    /\ pc \in {"fetch", "fetched"} =>
          /\ requests = [k \in 1..Len(requests) |-> k]
          /\ Len(received) = Len(requests)
          /\ collected = PagesReceived
          /\ IsPrefix(collected, roster)
          /\ \A k \in DOMAIN received :
                /\ received[k].status = 200
                /\ (k < Len(received) \/ pc = "fetch") =>
                      Len(received[k].samples) = page_size
    /\ pc = "fetch" => page = Len(requests) + 1
    /\ pc = "fetched" =>
          /\ received /= <<>>
          /\ Len(received[Len(received)].samples) < page_size
          /\ exit_status = -1
          /\ (Len(collected) < Len(roster)) =
                (received[Len(received)].samples
                    /= ServerPage(roster, Len(requests), page_size))

C24_Witness ==
    /\ server = "short"
    /\ pc = "fetched"
    /\ requests = <<1, 2>>
    /\ received[2].samples /= <<>>
    /\ Len(roster) > 2 * page_size
    /\ collected /= roster

\* the roster fetch is over: it returned or it raised
FetchOver == pc \in {"fetched", "exited"}

\* the last response was a non-success status, an empty page or a short one
LastResponseEnds ==
    /\ received /= <<>>
    /\ LET last == received[Len(received)]
       IN last.status /= 200 \/ Len(last.samples) < page_size

\* C25: the pagination loop ends exactly when the server returns an empty
\* page, a page shorter than page_size or a non-success response: it is over
\* only after such a response, every response before it was a full page, and
\* against a server that sooner or later gives such a response it does end.
\* There is no page limit: against a server with a full page for every page
\* number it goes on asking for page after page and is never over.
C25_PagingTermination ==
    /\ [](FetchOver <=> LastResponseEnds)
    /\ [](\A k \in DOMAIN received :
             k < Len(received) =>
                (received[k].status = 200 /\ Len(received[k].samples) = page_size))
    /\ [](server = "endless" =>
             (pc = "fetch" /\ page = Len(requests) + 1
              /\ Len(collected) = Len(requests) * page_size))
    /\ (server /= "endless") ~> FetchOver

C25_Witness ==
    /\ server = "endless"
    /\ pc = "fetch"
    /\ page > MaxPages
    /\ Len(requests) = MaxPages
    /\ Len(collected) = MaxPages * page_size

\* C26: in every variant the confirmation prompt is shown at most once per
\* run: the process is at the prompt only at batch 1 with no answer given
\* yet, and once an answer was given no batch brings it back to the prompt,
\* however many batches there are and whichever submissions fail.
C26_PromptAtMostOnce ==
    /\ Len(prompts) <= 1
    /\ pc = "confirm" => (prompts = <<>> /\ i = 1 /\ submitted = <<>>)
    /\ (prompts /= <<>> /\ pc /= "exited") =>
          (StripLower(prompts[1]) = "y" /\ pc \in {"submit", "loop", "done"})

C26_Witness ==
    /\ pc = "done"
    /\ IsFlowbio
    /\ prompts = <<" Y ">>
    /\ Len(submitted) = 3
    /\ errors = <<1, 3>>

\* C27: in every variant, when a submission call returns a response without
\* id, the failure is confined to that batch: no URL is recorded for it, an
\* error is reported for it, and the run does not end before every later
\* batch of the range that holds samples had its submission attempted.
C27_MissingIdConfined ==
    \A k \in DOMAIN submitted :
        submitted[k].outcome = "no_id" =>
            /\ submitted[k].batch \notin SeqRange(run_urls)
            /\ submitted[k].batch \in SeqRange(errors) \/ exit_reason = "no_run_id"
            /\ Ended =>
                  \A b \in DOMAIN chunks :
                      (b > submitted[k].batch /\ InRange(b) /\ chunks[b] /= <<>>)
                          => b \in BatchesOf(submitted)

\* C28: every request that is submitted holds at least one sample row: no
\* variant submits an execution for an empty batch, also when the batch
\* count asked for is greater than the number of filtered samples.
C28_NoEmptyBatchSubmitted ==
    \A k \in DOMAIN submitted :
        /\ RowCount(submitted[k].request) >= 1
        /\ chunks[submitted[k].batch] /= <<>>

\* the posted chunks that carried is_last_sample
Flagged == {k \in DOMAIN posted : posted[k].form.is_last_sample}

\* C29: in the chunked upload of one or two read files, chunks are posted
\* one at a time in increasing order, file by file; is_last_sample is set
\* on exactly one posted chunk, the final chunk of the last file: never on an
\* earlier chunk, no chunk is posted after it, and an upload that returned
\* has posted it; a non-success response or a response lacking data_id or
\* sample_id stops the upload with no further chunk posted.
C29_LastSampleFlag ==
    /\ \A k \in DOMAIN posted :
          k > 1 =>
            \/ /\ posted[k].form.position = posted[k - 1].form.position
               /\ posted[k].form.chunk_num = posted[k - 1].form.chunk_num + 1
            \/ /\ posted[k].form.position > posted[k - 1].form.position
               /\ posted[k].form.chunk_num = 0
               /\ posted[k - 1].form.is_last
    /\ \A k \in Flagged :
          /\ posted[k].form.position = Len(reads)
          /\ posted[k].form.is_last
          /\ k = Len(posted)
    /\ Cardinality(Flagged) <= 1
    /\ pc = "uploaded" => Cardinality(Flagged) = 1
    /\ \A k \in DOMAIN posted :
          posted[k].outcome /= "ok" => (k = Len(posted) /\ pc = "exited")

\* q without the blanks before its first and after its last other character
Trimmed(q) ==
    LET solid == {k \in DOMAIN q : q[k] /= " "}
    IN IF solid = {} THEN <<>>
       ELSE SubSeq(q, CHOOSE k \in solid : \A j \in solid : k <= j,
                      CHOOSE k \in solid : \A j \in solid : j <= k)

IsNumber(q) == q /= <<>> /\ \A k \in DOMAIN q : q[k] \in Digits

RECURSIVE Pow10(_)
Pow10(e) == IF e = 0 THEN 1 ELSE 10 * Pow10(e - 1)

RECURSIVE PlaceSum(_, _)
PlaceSum(q, k) ==
    IF k > Len(q) THEN 0
    ELSE DigitVal(q[k]) * Pow10(Len(q) - k) + PlaceSum(q, k + 1)

\* the decimal value of a string of digits, place by place
NumberOf(q) == PlaceSum(q, 1)

\* the parts of the --rows value: the stretches between its commas
CommaCuts == {0, Len(rows_spec) + 1} \cup {k \in DOMAIN rows_spec : rows_spec[k] = ","}

SpecParts ==
    {SubSeq(rows_spec, lo + 1, hi - 1) :
        <<lo, hi>> \in {c \in CommaCuts \X CommaCuts :
                           /\ c[1] < c[2]
                           /\ \A m \in CommaCuts : ~(c[1] < m /\ m < c[2])}}

\* index x is named by the part: as a single number, or inside a range a-b
\* of two numbers after a is raised to 1 and b lowered to nrows
NamedBy(x, part) ==
    LET t == Trimmed(part)
    IN \/ IsNumber(t) /\ x = NumberOf(t)
       \/ \E d \in DOMAIN t :
             /\ t[d] = "-"
             /\ IsNumber(Trimmed(SubSeq(t, 1, d - 1)))
             /\ IsNumber(Trimmed(SubSeq(t, d + 1, Len(t))))
             /\ Max(1, NumberOf(Trimmed(SubSeq(t, 1, d - 1)))) <= x
             /\ x <= Min(nrows, NumberOf(Trimmed(SubSeq(t, d + 1, Len(t)))))

\* C30: parse_rows(spec, nrows) returns a strictly increasing list (so
\* without duplicates) of indices between 1 and nrows; an index of 1..nrows
\* is in it exactly when some part names it, as a single number or inside a
\* range a-b after a is raised to 1 and b lowered to nrows; parts that are
\* empty, not numeric, out of range or inverted ranges add nothing, and the
\* function returns without an error whatever the parts are.
C30_ParseRows ==
    pc /= "parse" =>
        /\ pc = "parsed" /\ exit_status = -1
        /\ StrictlyIncreasing(rows_out)
        /\ \A k \in DOMAIN rows_out : 1 <= rows_out[k] /\ rows_out[k] <= nrows
        /\ SeqRange(rows_out) =
              {x \in 1..nrows : \E part \in SpecParts : NamedBy(x, part)}

C30_Witness ==
    /\ pc = "parsed"
    /\ rows_spec = <<"0", "-", "3", ",">>
    /\ nrows = 2
    /\ rows_out = <<1, 2>>

=============================================================================
